---- MODULE Spec2Model ----
(***************************************************************************)
(* multi-process-logger: logger-client (Logger::log), the Unix stream      *)
(* socket between a client process and the server, and logger-server       *)
(* (listener, handle_stream per connection, the App store and selection,   *)
(* the UI loop of run_app).                                                *)
(*                                                                         *)
(* The wire carries cells.  A header is the LogData struct, one cell per   *)
(* field in declaration order (secs, nanos, pid, pthread, length, level);  *)
(* the payload is one cell per message byte.  The code moves the header    *)
(* with a byte-for-byte transmute on both sides, so every field arrives    *)
(* as it was written; reads and writes split the stream between cells.     *)
(* Rust indices are 0-based, TLA+ sequences 1-based: At(s, i) is s[i].     *)
(***************************************************************************)
EXTENDS Integers, Sequences, FiniteSets, TLC

\* ------------------------------------------------------------- bounds
\* log calls one client thread makes
MaxCalls == 2
\* records a raw peer (a peer that is not logger-client) writes
MaxRaw == 2

\* ------------------------------------------------------------- constants
\* number of fields of LogData: the header length, in cells
HEADER_SIZE == 6
\* log::Level: Error = 1 .. Trace = 5
LEVEL_MIN == 1
LEVEL_MAX == 5
\* Duration::new carries nanos >= NANOS_PER_SEC into secs
NANOS_PER_SEC == 1000000000
\* LevelFilter::Debug, the threshold test-process passes to Logger::init
LOG_LEVEL == 4
\* the capacity handle_stream gives its payload buffer
DEFAULT_CAPACITY == 1024

Peers == {1, 2}
Threads == {1, 2}
\* Pid::this() of peer p, pthread_self() of its thread t
PidOf(p) == 100 * p
TidOf(t) == 6 + t

\* Option<usize>
None == <<>>
Some(x) == <<x>>
IsSome(o) == o # <<>>
Unwrap(o) == o[1]

\* ------------------------------------------------------------- sequences
At(s, i) == s[i + 1]
Take(s, k) == SubSeq(s, 1, k)
Drop(s, k) == SubSeq(s, k + 1, Len(s))
Min(a, b) == IF a < b THEN a ELSE b
Max(a, b) == IF a < b THEN b ELSE a
IsPrefix(s, t) == Len(s) <= Len(t) /\ s = SubSeq(t, 1, Len(s))

\* buf[off..] receives bytes: what read(&mut buf[off..]) leaves in buf
FillAtStart(buf, off, bytes) ==
    [i \in 1..Len(buf) |-> IF i <= Len(bytes) THEN bytes[i] ELSE buf[i]]
Fill(buf, off, bytes) ==
    [i \in 1..Len(buf) |->
        IF i > off /\ i <= off + Len(bytes) THEN bytes[i - off] ELSE buf[i]]

\* A Vec<u8> is its length, its capacity and `head`, its bytes up to the last
\* one that was written; the bytes from there to `len` are 0.
ZeroExtend(s, n) == [i \in 1..n |-> IF i <= Len(s) THEN s[i] ELSE 0]
\* Vec::with_capacity(c)
VecWithCapacity(c) == [len |-> 0, cap |-> c, head |-> <<>>]
\* &data: the bytes of the Vec
VecBytes(v) == ZeroExtend(v.head, v.len)
\* Vec::resize(n, 0): truncates to n, or extends to n with zeros; past the
\* capacity the buffer is reallocated with capacity max(2 * cap, n)
Resize(v, n) ==
    [len |-> n,
     cap |-> IF n <= v.cap THEN v.cap ELSE Max(2 * v.cap, n),
     head |-> IF n < Len(v.head) THEN Take(v.head, n) ELSE v.head]
\* data[off..] receives bytes: what read(&mut data[off..]) leaves in the Vec
FillVec(v, off, bytes) ==
    [v EXCEPT !.head = Fill(ZeroExtend(@, Max(Len(@), off + Len(bytes))), off, bytes)]

\* the loop tests `array_index < array.len()` and `data_index < data.len()`
NeedMoreOnce(index, len) == FALSE
NeedMore(index, len) == index < len

\* ------------------------------------------------------------- codec
\* transmute::<LogData, [u8; N]> in Logger::log
Encode(ld) == <<ld.secs, ld.nanos, ld.pid, ld.pthread, ld.length, ld.level>>
\* transmute::<[u8; N], LogData> in handle_stream
Decode(a) ==
    [secs |-> a[1], nanos |-> a[2], pid |-> a[3], pthread |-> a[4],
     length |-> a[5], level |-> a[6]]
ValidLevel(l) == l \in LEVEL_MIN..LEVEL_MAX

\* A u64 is written as the two's-complement i64 reading of its 64 bits: a
\* value below 2^63 as itself, u64::MAX - k as -1 - k.
U64_MAX == -1
\* usize is 64 bits wide and written the same way; isize::MAX is the largest
\* value that reads as non-negative
USIZE_MAX == -1
AboveIsizeMax(n) == n < 0
\* u64::checked_add(s, c) for a small c >= 0: None when the sum passes u64::MAX
U64AddOverflows(s, c) == s < 0 /\ s + c >= 0
U64Add(s, c) == s + c

\* Duration::new(secs, nanos): nanos >= NANOS_PER_SEC is carried into secs, and
\* the call panics when the carry overflows secs
DurationOverflows(secs, nanos) == U64AddOverflows(secs, nanos \div NANOS_PER_SEC)
DurationNew(secs, nanos) ==
    <<U64Add(secs, nanos \div NANOS_PER_SEC), nanos % NANOS_PER_SEC>>

\* std::str::from_utf8
Cont(b) == b \in 128..191
RECURSIVE Utf8From(_, _)
Utf8From(s, i) ==
    IF i > Len(s) THEN TRUE
    ELSE LET b == s[i]
             n == Len(s)
         IN IF b < 128 THEN Utf8From(s, i + 1)
            ELSE IF b \in 194..223
                 THEN i + 1 <= n /\ Cont(s[i + 1]) /\ Utf8From(s, i + 2)
            ELSE IF b \in 224..239
                 THEN /\ i + 2 <= n
                      /\ IF b = 224 THEN s[i + 1] \in 160..191
                         ELSE IF b = 237 THEN s[i + 1] \in 128..159
                         ELSE Cont(s[i + 1])
                      /\ Cont(s[i + 2])
                      /\ Utf8From(s, i + 3)
            ELSE IF b \in 240..244
                 THEN /\ i + 3 <= n
                      /\ IF b = 240 THEN s[i + 1] \in 144..191
                         ELSE IF b = 244 THEN s[i + 1] \in 128..143
                         ELSE Cont(s[i + 1])
                      /\ Cont(s[i + 2])
                      /\ Cont(s[i + 3])
                      /\ Utf8From(s, i + 4)
            ELSE FALSE
Utf8Valid(s) == Utf8From(s, 1)

\* Logger::enabled
Enabled(level) == level <= LOG_LEVEL

\* ------------------------------------------------------------- inputs
\* record.level() of the log calls: Info, Trace
CallLevels == {3, 5}
\* record.args().to_string(): "", "e-acute"
Messages == {<<>>, <<195, 169>>}
\* SystemTime::now() as (as_secs, subsec_nanos)
Clock == {<<1, 5>>}

\* what a raw peer writes: a header and the payload that follows it
RawRecord(secs, nanos, p, level, msg) ==
    [secs |-> secs, nanos |-> nanos, pid |-> PidOf(p), pthread |-> TidOf(1),
     length |-> Len(msg), level |-> level, message |-> msg]
\* a header whose length is usize::MAX and one whose length is 2 GiB - 1;
\* neither is followed by a payload
OverLengthRecords(p) ==
    { [RawRecord(1, 5, p, 3, <<>>) EXCEPT !.length = USIZE_MAX],
      [RawRecord(1, 5, p, 3, <<>>) EXCEPT !.length = 2147483647] }
\* a well-formed record, one whose nanos is a whole second, one whose level
\* is no log::Level
RawRecords(p) ==
    { RawRecord(1, 5, p, 3, <<97, 98>>),
      RawRecord(1, NANOS_PER_SEC, p, 3, <<97>>),
      RawRecord(1, 5, p, 9, <<>>) }
\* a record whose payload is not UTF-8
BadUtf8Records(p) == { RawRecord(1, 5, p, 2, <<255>>) }
\* a record whose nanos is a whole second and whose secs is u64::MAX
OverflowRecords(p) == { RawRecord(U64_MAX, NANOS_PER_SEC, p, 3, <<>>) }

Bytes(r) == Encode(r) \o r.message

\* the entry handle_stream builds from a record that reaches the store
StoredLog(r) ==
    [time |-> DurationNew(r.secs, r.nanos), level |-> r.level, message |-> r.message]

VARIABLES
    cfg,            \* the scenario: kind and thread count of each peer, the inputs
                    \* its log calls draw from, whether its threads call
                    \* flush, how its writes reach the socket and whether it
                    \* closes; never changes
    \* client process
    tpc,            \* tpc[p][t]: "idle" | "writing" | "flushing" | "panicked"
    calls,          \* calls[p][t]: log calls (records, for a raw peer) made
    out,            \* out[p][t]: bytes write_all has still to write
    stream_lock,    \* Logger.stream: Some(t) while thread t holds the Mutex
    stream_poisoned,
    \* listener thread and the file at the socket path
    listener,       \* "start" | "listening" | "panicked"
    socket_file,    \* who made the file at the path: "none" | "own" | "other"
    server,         \* the server process: "running" | "exited" | "aborted"
    \* socket
    connected,      \* UnixStream::connect returned
    backlog,        \* connected peers the listener has not accepted yet
    next_id,        \* the (0..) counter zipped with listener.incoming()
    conn_id,        \* conn_id[p]: Some(id) once accepted
    wire,           \* bytes written by the peer, not yet read by the server
    closed,         \* the peer closed its end
    edge,           \* the socket is on the epoll ready list
    \* handle_stream of each connection
    rpc,
    array,
    array_index,
    data,
    data_index,
    \* Arc<RwLock<App>>
    app,
    lock,           \* Some(p): reader p holds the write guard
    poisoned,
    \* run_app loop
    ui_pc,
    \* history
    emitted,        \* emitted[p][t]: entries thread t handed to write_all
    sent            \* sent[p]: records peer p started to write, in wire order

vars == <<cfg, listener, socket_file, server,
          tpc, calls, out, stream_lock, stream_poisoned, connected, backlog,
          next_id, conn_id, wire, closed, edge, rpc, array, array_index, data,
          data_index, app, lock, poisoned, ui_pc, emitted, sent>>

listener_vars == <<listener, socket_file>>
client_vars == <<tpc, calls, out, stream_lock, stream_poisoned, emitted, sent>>
socket_vars == <<connected, backlog, next_id, conn_id, wire, closed, edge>>
reader_vars == <<rpc, array, array_index, data, data_index>>
store_vars == <<app, lock, poisoned>>

\* App::new
AppNew ==
    [process_id_map |-> <<>>, processes |-> <<>>, process |-> None,
     thread |-> None, log |-> 0]

InitWith(c) ==
    /\ cfg = c
    /\ listener = "start"
    /\ socket_file = c.path
    /\ server = "running"
    /\ tpc = [p \in Peers |-> [t \in Threads |-> "idle"]]
    /\ calls = [p \in Peers |-> [t \in Threads |-> 0]]
    /\ out = [p \in Peers |-> [t \in Threads |-> <<>>]]
    /\ stream_lock = [p \in Peers |-> None]
    /\ stream_poisoned = [p \in Peers |-> FALSE]
    /\ connected = [p \in Peers |-> FALSE]
    /\ backlog = <<>>
    /\ next_id = 0
    /\ conn_id = [p \in Peers |-> None]
    /\ wire = [p \in Peers |-> <<>>]
    /\ closed = [p \in Peers |-> FALSE]
    /\ edge = [p \in Peers |-> FALSE]
    /\ rpc = [p \in Peers |-> "unborn"]
    /\ array = [p \in Peers |-> [i \in 1..HEADER_SIZE |-> 0]]
    /\ array_index = [p \in Peers |-> 0]
    /\ data = [p \in Peers |-> VecWithCapacity(DEFAULT_CAPACITY)]
    /\ data_index = [p \in Peers |-> 0]
    /\ app = AppNew
    /\ lock = None
    /\ poisoned = FALSE
    /\ ui_pc = "draw"
    /\ emitted = [p \in Peers |-> [t \in Threads |-> <<>>]]
    /\ sent = [p \in Peers |-> <<>>]

\* the server process runs, all its threads with it, until main returns or
\* unwinds (Exit) or the process is aborted
ServerAlive == server = "running"
\* the server's end of the connection is open
ServerEndOpen(p) == ServerAlive /\ rpc[p] # "panicked"
ThreadsOf(p) == 1..cfg.nthreads[p]

\* ------------------------------------------------------------- HashMap
EmptyMap == [k \in {} |-> 0]
\* HashMap::insert
MapInsertLost(m, k, v) == m
MapInsert(m, k, v) == [x \in DOMAIN m \cup {k} |-> IF x = k THEN v ELSE m[x]]

\* ------------------------------------------------------------- client
\* Mutex::lock blocks while another thread holds the guard
LockFreeAlways(l) == TRUE
LockFree(l) == l = None

\* the record Logger::log builds
ClientRecord(p, t, level, msg, now) ==
    [secs |-> now[1], nanos |-> now[2], pid |-> PidOf(p), pthread |-> TidOf(t),
     length |-> Len(msg), level |-> level, message |-> msg]

\* Logger::init: UnixStream::connect to the path; it reaches this server while
\* the file at the path is the one its bind made and its listener is open
Connect(p) ==
    /\ cfg.kind[p] # "absent"
    /\ ~connected[p]
    /\ ServerAlive
    /\ listener = "listening"
    /\ socket_file = "own"
    /\ connected' = [connected EXCEPT ![p] = TRUE]
    /\ backlog' = Append(backlog, p)
    /\ UNCHANGED <<cfg, server, listener_vars, client_vars, next_id, conn_id, wire, closed, edge,
                   reader_vars, store_vars, ui_pc>>

\* Logger::log up to the acquisition of the stream Mutex
Log(p, t) ==
    /\ cfg.kind[p] = "logger"
    /\ t \in ThreadsOf(p)
    /\ connected[p] /\ ~closed[p]
    /\ tpc[p][t] = "idle"
    /\ calls[p][t] < cfg.calls[p][t]
    /\ \E level \in cfg.levels, msg \in cfg.messages, now \in Clock :
         LET r == ClientRecord(p, t, level, msg, now) IN
         IF ~Enabled(level)
         THEN /\ calls' = [calls EXCEPT ![p][t] = @ + 1]
              /\ UNCHANGED <<tpc, out, stream_lock, stream_poisoned, emitted, sent>>
         ELSE /\ LockFree(stream_lock[p])
              /\ calls' = [calls EXCEPT ![p][t] = @ + 1]
              /\ IF stream_poisoned[p]
                 THEN /\ tpc' = [tpc EXCEPT ![p][t] = "panicked"]
                      /\ UNCHANGED <<out, stream_lock, stream_poisoned, emitted, sent>>
                 ELSE /\ tpc' = [tpc EXCEPT ![p][t] = "writing"]
                      /\ stream_lock' = [stream_lock EXCEPT ![p] = Some(t)]
                      /\ out' = [out EXCEPT ![p][t] = Bytes(r)]
                      /\ emitted' = [emitted EXCEPT ![p][t] = Append(@, StoredLog(r))]
                      /\ sent' = [sent EXCEPT ![p] = Append(@, r)]
                      /\ UNCHANGED stream_poisoned
    /\ UNCHANGED <<cfg, server, listener_vars, socket_vars, reader_vars, store_vars, ui_pc>>

\* Logger::flush (lib.rs 96-98): the thread waits for the stream Mutex while
\* another thread holds the guard; with the guard, lock().unwrap() panics when
\* the Mutex is poisoned, else UnixStream::flush returns Ok(()) and the guard
\* is dropped. No record is made and nothing is written
Flush(p, t) ==
    /\ cfg.kind[p] = "logger"
    /\ p \in cfg.flush
    /\ t \in ThreadsOf(p)
    /\ connected[p] /\ ~closed[p]
    /\ tpc[p][t] \in {"idle", "flushing"}
    /\ tpc' = [tpc EXCEPT ![p][t] =
                 IF ~LockFree(stream_lock[p]) THEN "flushing"
                 ELSE IF stream_poisoned[p] THEN "panicked"
                 ELSE "idle"]
    /\ UNCHANGED <<cfg, server, listener_vars, calls, out, stream_lock, stream_poisoned, emitted,
                   sent, socket_vars, reader_vars, store_vars, ui_pc>>

\* a peer that is not logger-client starts to write a record of its choice
RawSend(p) ==
    /\ cfg.kind[p] = "raw"
    /\ connected[p] /\ ~closed[p]
    /\ tpc[p][1] = "idle"
    /\ calls[p][1] < MaxRaw
    /\ \E r \in cfg.raws[p] :
         /\ out' = [out EXCEPT ![p][1] = Bytes(r)]
         /\ sent' = [sent EXCEPT ![p] = Append(@, r)]
    /\ tpc' = [tpc EXCEPT ![p][1] = "writing"]
    /\ calls' = [calls EXCEPT ![p][1] = @ + 1]
    /\ UNCHANGED <<cfg, server, listener_vars, stream_lock, stream_poisoned, emitted, socket_vars,
                   reader_vars, store_vars, ui_pc>>

\* write_all: the socket takes the next k bytes; the guard is dropped after the last
Write(p, t) ==
    /\ tpc[p][t] = "writing"
    /\ ~closed[p]
    /\ ServerEndOpen(p)
    /\ \E k \in cfg.chunks[p][Len(out[p][t])] :
         /\ wire' = [wire EXCEPT ![p] = @ \o Take(out[p][t], k)]
         /\ out' = [out EXCEPT ![p][t] = Drop(@, k)]
         /\ IF k = Len(out[p][t])
            THEN /\ tpc' = [tpc EXCEPT ![p][t] = "idle"]
                 /\ stream_lock' = [stream_lock EXCEPT ![p] = None]
            ELSE UNCHANGED <<tpc, stream_lock>>
    /\ edge' = [edge EXCEPT ![p] = TRUE]
    /\ UNCHANGED <<cfg, server, listener_vars, calls, stream_poisoned, emitted, sent, connected, backlog,
                   next_id, conn_id, closed, reader_vars, store_vars, ui_pc>>

\* write_all(..).unwrap() when the server's end is gone: the thread panics with
\* the guard held, which poisons the Mutex
WriteFail(p, t) ==
    /\ tpc[p][t] = "writing"
    /\ ~closed[p]
    /\ ~ServerEndOpen(p)
    /\ tpc' = [tpc EXCEPT ![p][t] = "panicked"]
    /\ stream_lock' = [stream_lock EXCEPT ![p] = None]
    /\ stream_poisoned' = [stream_poisoned EXCEPT ![p] = TRUE]
    /\ UNCHANGED <<cfg, server, listener_vars, calls, out, emitted, sent, socket_vars, reader_vars,
                   store_vars, ui_pc>>

\* the peer closes its end (it exits, or is killed at any point)
Close(p) ==
    /\ p \in cfg.closes
    /\ connected[p]
    /\ ~closed[p]
    /\ closed' = [closed EXCEPT ![p] = TRUE]
    /\ edge' = [edge EXCEPT ![p] = TRUE]
    /\ UNCHANGED <<cfg, server, listener_vars, client_vars, connected, backlog, next_id, conn_id, wire,
                   reader_vars, store_vars, ui_pc>>

\* ------------------------------------------------------------- listener
\* listener.incoming().zip(0..): accept, spawn handle_stream(stream, id, app),
\* which sets the stream non-blocking and registers it with its Epoll
\* line 206: UnixListener::bind(&socket).unwrap() in the listener thread; bind
\* makes the file, and fails with AddrInUse when the path exists
Bind ==
    /\ ServerAlive
    /\ listener = "start"
    /\ IF socket_file = "none"
       THEN listener' = "listening" /\ socket_file' = "own"
       ELSE listener' = "panicked" /\ UNCHANGED socket_file
    /\ UNCHANGED <<cfg, server, client_vars, socket_vars, reader_vars, store_vars, ui_pc>>

Accept ==
    /\ ServerAlive
    /\ listener = "listening"
    /\ backlog # <<>>
    /\ LET p == Head(backlog) IN
         /\ conn_id' = [conn_id EXCEPT ![p] = Some(next_id)]
         /\ rpc' = [rpc EXCEPT ![p] = "read_hdr"]
    /\ next_id' = next_id + 1
    /\ backlog' = Tail(backlog)
    /\ UNCHANGED <<cfg, server, listener_vars, client_vars, connected, wire, closed, edge, array,
                   array_index, data, data_index, store_vars, ui_pc>>

\* ------------------------------------------------------------- handle_stream
\* stream.read(buf) on the non-blocking socket: min(len, available) bytes
ReadCount(want, p) == Min(want, Len(wire[p]))
\* read fails with WouldBlock: nothing buffered and the peer has not closed
WouldBlock(p) == wire[p] = <<>> /\ ~closed[p]
\* epoll.wait returns: the socket is on the ready list and is readable
Ready(p) == edge[p] /\ (wire[p] # <<>> \/ closed[p])
\* the ready list after a read that left `rest` in the socket: epoll_wait drops
\* an entry whose socket is no longer readable without reporting it
EdgeAfterRead(p, rest) == edge[p] /\ (rest # <<>> \/ closed[p])

\* what the transmute of a header into LogData can give: an out-of-range
\* log::Level is undefined behaviour
TransmuteOutcomes(a) == IF ValidLevel(a[6]) THEN {"value"} ELSE {"value", "trap"}

\* the reader's position once the payload buffer holds data_index bytes
AfterData(d, index) ==
    IF NeedMore(index, d.len) THEN "wait_data"
    ELSE IF Utf8Valid(VecBytes(d)) THEN "lock" ELSE "panicked"

\* line 370: non_blocking(stream.read(&mut array))
ReadHeader(p) ==
    /\ ServerAlive
    /\ rpc[p] = "read_hdr"
    /\ LET k == ReadCount(HEADER_SIZE, p) IN
         /\ array' = [array EXCEPT ![p] = Fill(@, 0, Take(wire[p], k))]
         /\ array_index' = [array_index EXCEPT ![p] = k]
         /\ wire' = [wire EXCEPT ![p] = Drop(@, k)]
         /\ edge' = [edge EXCEPT ![p] = EdgeAfterRead(p, Drop(wire[p], k))]
         /\ rpc' = [rpc EXCEPT ![p] =
                IF NeedMore(k, HEADER_SIZE) THEN "wait_hdr" ELSE "read_data"]
    /\ UNCHANGED <<cfg, server, listener_vars, client_vars, connected, backlog, next_id, conn_id, closed,
                   data, data_index, store_vars, ui_pc>>

\* lines 372 and 383: epoll.wait takes the edge
Wait(p) ==
    /\ ServerAlive
    /\ rpc[p] \in {"wait_hdr", "wait_data"}
    /\ Ready(p)
    /\ edge' = [edge EXCEPT ![p] = FALSE]
    /\ rpc' = [rpc EXCEPT ![p] = IF rpc[p] = "wait_hdr" THEN "more_hdr" ELSE "more_data"]
    /\ UNCHANGED <<cfg, server, listener_vars, client_vars, connected, backlog, next_id, conn_id, wire,
                   closed, array, array_index, data, data_index, store_vars, ui_pc>>

\* line 373: array_index += stream.read(&mut array[array_index..]).unwrap()
MoreHeader(p) ==
    /\ ServerAlive
    /\ rpc[p] = "more_hdr"
    /\ IF WouldBlock(p)
       THEN /\ rpc' = [rpc EXCEPT ![p] = "panicked"]
            /\ UNCHANGED <<array, array_index, wire, edge>>
       ELSE LET k == ReadCount(HEADER_SIZE - array_index[p], p) IN
            /\ array' = [array EXCEPT ![p] = Fill(@, array_index[p], Take(wire[p], k))]
            /\ array_index' = [array_index EXCEPT ![p] = @ + k]
            /\ wire' = [wire EXCEPT ![p] = Drop(@, k)]
            /\ edge' = [edge EXCEPT ![p] = EdgeAfterRead(p, Drop(wire[p], k))]
            /\ rpc' = [rpc EXCEPT ![p] =
                   IF NeedMore(array_index[p] + k, HEADER_SIZE)
                   THEN "wait_hdr" ELSE "read_data"]
    /\ UNCHANGED <<cfg, server, listener_vars, client_vars, connected, backlog, next_id, conn_id, closed,
                   data, data_index, store_vars, ui_pc>>

\* line 379: data.resize(log_data.length, 0). A length above isize::MAX panics
\* ('capacity overflow') in the reader thread. A length above the capacity
\* makes the Vec ask the allocator for memory, and whether the allocator grants
\* the request is decided when the server runs: if it does not,
\* handle_alloc_error aborts the process
ResizeOutcomes(v, length) ==
    IF AboveIsizeMax(length) THEN {"panic"}
    ELSE IF length <= v.cap THEN {"resized"}
    ELSE {"resized", "abort"}

\* lines 375-387: transmute, data.resize(length, 0), the first payload read
ReadData(p) ==
    /\ ServerAlive
    /\ rpc[p] = "read_data"
    /\ LET length == Decode(array[p]).length IN
       \E o \in TransmuteOutcomes(array[p]), r \in ResizeOutcomes(data[p], length) :
         IF o = "trap" \/ r = "panic"
         THEN /\ rpc' = [rpc EXCEPT ![p] = "panicked"]
              /\ UNCHANGED <<data, data_index, wire, edge, server>>
         ELSE IF r = "abort"
         THEN /\ server' = "aborted"
              /\ UNCHANGED <<rpc, data, data_index, wire, edge>>
         ELSE LET k == ReadCount(length, p)
                  d == FillVec(Resize(data[p], length), 0, Take(wire[p], k))
              IN /\ data' = [data EXCEPT ![p] = d]
                 /\ data_index' = [data_index EXCEPT ![p] = k]
                 /\ wire' = [wire EXCEPT ![p] = Drop(@, k)]
                 /\ edge' = [edge EXCEPT ![p] = EdgeAfterRead(p, Drop(wire[p], k))]
                 /\ rpc' = [rpc EXCEPT ![p] = AfterData(d, k)]
                 /\ UNCHANGED server
    /\ UNCHANGED <<cfg, listener_vars, client_vars, connected, backlog, next_id, conn_id, closed,
                   array, array_index, store_vars, ui_pc>>

\* lines 384-387: data_index += stream.read(&mut data[data_index..]).unwrap()
MoreData(p) ==
    /\ ServerAlive
    /\ rpc[p] = "more_data"
    /\ IF WouldBlock(p)
       THEN /\ rpc' = [rpc EXCEPT ![p] = "panicked"]
            /\ UNCHANGED <<data, data_index, wire, edge>>
       ELSE LET k == ReadCount(data[p].len - data_index[p], p)
                d == FillVec(data[p], data_index[p], Take(wire[p], k))
            IN /\ data' = [data EXCEPT ![p] = d]
               /\ data_index' = [data_index EXCEPT ![p] = @ + k]
               /\ wire' = [wire EXCEPT ![p] = Drop(@, k)]
               /\ edge' = [edge EXCEPT ![p] = EdgeAfterRead(p, Drop(wire[p], k))]
               /\ rpc' = [rpc EXCEPT ![p] = AfterData(d, data_index[p] + k)]
    /\ UNCHANGED <<cfg, server, listener_vars, client_vars, connected, backlog, next_id, conn_id, closed,
                   array, array_index, store_vars, ui_pc>>

\* ------------------------------------------------------------- the store
\* Vec::push
PushFront(v, x) == <<x>> \o v
Push(v, x) == Append(v, x)

NewThreadEmpty(tid, log) == [id |-> tid, log |-> <<>>]
NewThread(tid, log) == [id |-> tid, log |-> <<log>>]
NewProcess(pid, tid, log) ==
    [id |-> pid, thread_id_map |-> MapInsert(EmptyMap, tid, 0),
     threads |-> <<NewThread(tid, log)>>]

\* lines 405-419: the process is known
ThreadPushClear(proc, tid, log) ==
    IF tid \in DOMAIN proc.thread_id_map
    THEN [proc EXCEPT !.threads[proc.thread_id_map[tid] + 1].log = <<>>]
    ELSE [proc EXCEPT !.thread_id_map = MapInsert(@, tid, Len(proc.threads)),
                      !.threads = Push(@, NewThread(tid, log))]
ThreadPush(proc, tid, log) ==
    IF tid \in DOMAIN proc.thread_id_map
    THEN [proc EXCEPT !.threads[proc.thread_id_map[tid] + 1].log = Push(@, log)]
    ELSE [proc EXCEPT !.thread_id_map = MapInsert(@, tid, Len(proc.threads)),
                      !.threads = Push(@, NewThread(tid, log))]

\* lines 399-431
AddData(a, pid, tid, log) ==
    IF pid \in DOMAIN a.process_id_map
    THEN [a EXCEPT !.processes[a.process_id_map[pid] + 1] = ThreadPush(@, tid, log)]
    ELSE [a EXCEPT !.process_id_map = MapInsert(@, pid, Len(a.processes)),
                   !.processes = Push(@, NewProcess(pid, tid, log))]

\* lines 432-435
AutoSelectAlways(a, id) == [a EXCEPT !.process = Some(id), !.thread = Some(0)]
AutoSelect(a, id) ==
    IF a.thread = None
    THEN [a EXCEPT !.process = Some(id), !.thread = Some(0)]
    ELSE a

\* line 391: app.write().unwrap()
Lock(p) ==
    /\ ServerAlive
    /\ rpc[p] = "lock"
    /\ lock = None
    /\ IF poisoned
       THEN /\ rpc' = [rpc EXCEPT ![p] = "panicked"]
            /\ UNCHANGED lock
       ELSE /\ rpc' = [rpc EXCEPT ![p] = "add"]
            /\ lock' = Some(p)
    /\ UNCHANGED <<cfg, server, listener_vars, client_vars, socket_vars, array, array_index, data,
                   data_index, app, poisoned, ui_pc>>

\* lines 392-436: build the Log, add it, auto-select, drop the guard; a panic of
\* Duration::new unwinds through the guard, which poisons the RwLock
Add(p) ==
    /\ ServerAlive
    /\ rpc[p] = "add"
    /\ LET ld == Decode(array[p]) IN
         IF DurationOverflows(ld.secs, ld.nanos)
         THEN /\ rpc' = [rpc EXCEPT ![p] = "panicked"]
              /\ poisoned' = TRUE
              /\ UNCHANGED app
         ELSE LET log == [time |-> DurationNew(ld.secs, ld.nanos), level |-> ld.level,
                         message |-> VecBytes(data[p])]
              IN /\ app' = AutoSelect(AddData(app, ld.pid, ld.pthread, log),
                                      Unwrap(conn_id[p]))
                 /\ rpc' = [rpc EXCEPT ![p] = "read_hdr"]
                 /\ UNCHANGED poisoned
    /\ lock' = None
    /\ UNCHANGED <<cfg, server, listener_vars, client_vars, socket_vars, array, array_index, data,
                   data_index, ui_pc>>

\* ------------------------------------------------------------- navigation
\* Each operation gives the App it leaves, or Panic(a) where the code panics (an
\* index out of bounds, a remainder by zero, a subtraction below zero, an
\* unwrap of None) with a the App as the panic leaves it: a cursor the
\* operation has set before the panicking line stays set.
Panic(a) == [panic |-> TRUE, app |-> a]
Panicked(r) == "panic" \in DOMAIN r

\* lines 82-90 and 101-109: select(Some(new_process)), then processes[new_process]
ResetThread(a, new_process) ==
    LET a1 == [a EXCEPT !.process = Some(new_process)] IN
    IF new_process >= Len(a.processes) THEN Panic(a1)
    ELSE IF At(a.processes, new_process).threads # <<>>
         THEN IF At(At(a.processes, new_process).threads, 0).log # <<>>
              THEN [a1 EXCEPT !.thread = Some(0), !.log = 0]
              ELSE [a1 EXCEPT !.thread = Some(0)]
         ELSE a1

next_process(a) ==
    IF IsSome(a.process)
    THEN IF Len(a.processes) = 0 THEN Panic(a)
         ELSE ResetThread(a, (Unwrap(a.process) + 1) % Len(a.processes))
    ELSE a

previous_process(a) ==
    IF IsSome(a.process)
    THEN IF Unwrap(a.process) > 0 THEN ResetThread(a, Unwrap(a.process) - 1)
         ELSE IF Len(a.processes) = 0 THEN Panic(a)
         ELSE ResetThread(a, Len(a.processes) - 1)
    ELSE a

\* lines 119-126 and 138-145: select(Some(new_thread)), then
\* processes[process.selected().unwrap()].threads[new_thread]
ResetLog(a, new_thread) ==
    LET a1 == [a EXCEPT !.thread = Some(new_thread)] IN
    IF ~IsSome(a.process) THEN Panic(a1)
    ELSE IF Unwrap(a.process) >= Len(a.processes) THEN Panic(a1)
    ELSE LET threads == At(a.processes, Unwrap(a.process)).threads IN
         IF new_thread >= Len(threads) THEN Panic(a1)
         ELSE IF At(threads, new_thread).log # <<>>
              THEN [a1 EXCEPT !.log = 0]
              ELSE a1

next_thread(a) ==
    IF IsSome(a.thread)
    THEN IF ~IsSome(a.process) THEN Panic(a)
         ELSE IF Unwrap(a.process) >= Len(a.processes) THEN Panic(a)
         ELSE LET n == Len(At(a.processes, Unwrap(a.process)).threads) IN
              IF n = 0 THEN Panic(a)
              ELSE ResetLog(a, (Unwrap(a.thread) + 1) % n)
    ELSE a

\* with thread > 0 the new cursor is computed without a look at the store
previous_thread(a) ==
    IF IsSome(a.thread)
    THEN IF Unwrap(a.thread) > 0
         THEN ResetLog(a, Unwrap(a.thread) - 1)
         ELSE IF ~IsSome(a.process) THEN Panic(a)
              ELSE IF Unwrap(a.process) >= Len(a.processes) THEN Panic(a)
              ELSE LET n == Len(At(a.processes, Unwrap(a.process)).threads) IN
                   IF n = 0 THEN Panic(a) ELSE ResetLog(a, n - 1)
    ELSE a

next_logUnchecked(a) ==
    IF IsSome(a.process) /\ IsSome(a.thread) THEN [a EXCEPT !.log = @ + 1] ELSE a
next_log(a) ==
    IF IsSome(a.process) /\ IsSome(a.thread)
    THEN IF Unwrap(a.process) >= Len(a.processes) THEN Panic(a)
         ELSE LET threads == At(a.processes, Unwrap(a.process)).threads IN
              IF Unwrap(a.thread) >= Len(threads) THEN Panic(a)
              ELSE IF a.log < Len(At(threads, Unwrap(a.thread)).log)
                   THEN [a EXCEPT !.log = @ + 1]
                   ELSE a
    ELSE a

previous_log(a) ==
    IF a.log > 0 THEN [a EXCEPT !.log = @ - 1] ELSE a

\* the match on key.code in run_app; x is any event with no arm of its own
Keys == {"q", "w", "s", "e", "d", "r", "f", "x"}
OnKey(key, a) ==
    CASE key = "w" -> previous_process(a)
      [] key = "s" -> next_process(a)
      [] key = "e" -> previous_thread(a)
      [] key = "d" -> next_thread(a)
      [] key = "r" -> previous_log(a)
      [] key = "f" -> next_log(a)
      [] OTHER -> a

\* the rows ui() builds from the selected lane: log.iter().skip(app.log)
Rows(a) ==
    IF IsSome(a.process) /\ IsSome(a.thread)
    THEN LET log == At(At(a.processes, Unwrap(a.process)).threads, Unwrap(a.thread)).log
         IN IF a.log >= Len(log) THEN <<>> ELSE Drop(log, a.log)
    ELSE <<>>

\* ui() indexes processes[process] and threads[thread] with the cursors
UiPanics(a) ==
    /\ IsSome(a.process)
    /\ \/ Unwrap(a.process) >= Len(a.processes)
       \/ /\ IsSome(a.thread)
          /\ Unwrap(a.thread) >= Len(At(a.processes, Unwrap(a.process)).threads)

\* what a frame can do: formatting an out-of-range log::Level (level.to_string()
\* at line 314) is undefined; builds of the code draw the frame, panic in the
\* UI thread, or abort the process
DrawOutcomes(a) ==
    IF UiPanics(a) THEN {"panic"}
    ELSE IF \A i \in 1..Len(Rows(a)) : ValidLevel(Rows(a)[i].level) THEN {"frame"}
    ELSE {"frame", "panic", "abort"}

\* line 218, terminal.draw(|f| ui(f, app))?: ui holds the write guard for the
\* whole frame; a panic in the UI thread is a panic of the main thread; an
\* error of the terminal makes run_app return it
Draw ==
    /\ ServerAlive
    /\ ui_pc = "draw"
    /\ \/ /\ cfg.io_error
          /\ ui_pc' = "error"
          /\ UNCHANGED <<poisoned, server>>
       \/ /\ lock = None
          /\ IF poisoned
             THEN /\ ui_pc' = "panicked"
                  /\ UNCHANGED <<poisoned, server>>
             ELSE \E o \in DrawOutcomes(app) :
                    IF o = "panic"
                    THEN /\ ui_pc' = "panicked"
                         /\ poisoned' = TRUE
                         /\ UNCHANGED server
                    ELSE IF o = "abort"
                    THEN /\ server' = "aborted"
                         /\ UNCHANGED <<ui_pc, poisoned>>
                    ELSE /\ ui_pc' = "key"
                         /\ UNCHANGED <<poisoned, server>>
    /\ UNCHANGED <<cfg, listener_vars, client_vars, socket_vars, reader_vars, app, lock>>

\* line 234: std::fs::remove_file(&socket).unwrap() after the loop
RemoveFile(f) == "none"

\* `len - 1` on an empty vector (lines 98 and 133): the build with overflow
\* checks panics at the subtraction, which previous_process and previous_thread
\* give; the build without them wraps to usize::MAX, sets the cursor and panics
\* at the index
Wrapping(key, a) ==
    IF key = "w" /\ a.process = Some(0) /\ a.processes = <<>>
    THEN {Panic([a EXCEPT !.process = Some(USIZE_MAX)])}
    ELSE IF /\ key = "e" /\ a.thread = Some(0) /\ IsSome(a.process)
            /\ Unwrap(a.process) \in 0..(Len(a.processes) - 1)
            /\ At(a.processes, Unwrap(a.process)).threads = <<>>
    THEN {Panic([a EXCEPT !.thread = Some(USIZE_MAX)])}
    ELSE {}
\* what the operation bound to the key can leave
KeyOutcomes(key, a) == {OnKey(key, a)} \cup Wrapping(key, a)

\* line 220, event::read()?: an error of the terminal makes run_app return it;
\* q leaves the loop and removes the file at the socket path; the keys bound
\* to an operation run it under app.write().unwrap(); any other event leads
\* to the next frame
Key ==
    /\ ServerAlive
    /\ ui_pc = "key"
    /\ \/ /\ cfg.io_error
          /\ ui_pc' = "error"
          /\ UNCHANGED <<app, poisoned, socket_file>>
       \/ \E key \in cfg.keys :
            IF key = "q"
            THEN /\ ui_pc' = IF socket_file = "none" THEN "panicked" ELSE "done"
                 /\ socket_file' = RemoveFile(socket_file)
                 /\ UNCHANGED <<app, poisoned>>
            ELSE IF key = "x"
            THEN /\ ui_pc' = "draw"
                 /\ UNCHANGED <<app, poisoned, socket_file>>
            ELSE /\ UNCHANGED socket_file
                 /\ lock = None
                 /\ IF poisoned
                    THEN /\ ui_pc' = "panicked"
                         /\ UNCHANGED <<app, poisoned>>
                    ELSE \E r \in KeyOutcomes(key, app) :
                           IF Panicked(r)
                           THEN /\ ui_pc' = "panicked"
                                /\ poisoned' = TRUE
                                /\ app' = r.app
                           ELSE /\ ui_pc' = "draw"
                                /\ app' = r
                                /\ UNCHANGED poisoned
    /\ UNCHANGED <<cfg, server, listener, client_vars, socket_vars, reader_vars, lock>>

\* run_app has returned (Ok after q, Err after an error of the terminal) or the
\* UI thread has panicked: main returns or unwinds and the process exits, which
\* ends the listener and the readers; until then they go on
Exit ==
    /\ ServerAlive
    /\ ui_pc \in {"done", "error", "panicked"}
    /\ server' = "exited"
    /\ UNCHANGED <<cfg, listener_vars, client_vars, socket_vars, reader_vars, store_vars,
                   ui_pc>>

\* ------------------------------------------------------------- specifications
Reader(p) ==
    \/ ReadHeader(p)
    \/ Wait(p)
    \/ MoreHeader(p)
    \/ ReadData(p)
    \/ MoreData(p)
    \/ Lock(p)
    \/ Add(p)

\* write_all hands the socket any non-empty part of what is left
AnyChunk(n) == 1..n
\* write_all hands the socket all of it at once
WholeChunk(n) == {n}
\* write_all hands the socket all of it at once, or the header first
HeaderOrWhole(n) == {n} \cup {k \in {HEADER_SIZE} : k < n}

\* SpecFifo: one logger-client process with one thread, and its reader
FifoCfg ==
    [kind |-> [p \in Peers |-> IF p = 1 THEN "logger" ELSE "absent"],
     nthreads |-> [p \in Peers |-> IF p = 1 THEN 1 ELSE 0],
     calls |-> [p \in Peers |-> [t \in Threads |-> MaxCalls + 1]],
     levels |-> CallLevels, messages |-> Messages,
     chunks |-> [p \in Peers |-> [n \in 1..(HEADER_SIZE + 2) |->
                   AnyChunk(n)]],
     closes |-> {}, raws |-> [p \in Peers |-> {}], path |-> "none",
     keys |-> {}, io_error |-> FALSE, flush |-> {1}]
InitFifo == InitWith(FifoCfg)
NextFifo ==
    \/ Bind
    \/ \E p \in Peers : Connect(p)
    \/ \E p \in Peers, t \in Threads : Log(p, t)
    \/ \E p \in Peers, t \in Threads : Flush(p, t)
    \/ \E p \in Peers, t \in Threads : Write(p, t)
    \/ Accept
    \/ \E p \in Peers : Reader(p)
    \/ Draw
SpecFifo == InitFifo /\ [][NextFifo]_vars

\* SpecThreads: one logger-client process whose two threads log concurrently
ThreadsCfg ==
    [kind |-> [p \in Peers |-> IF p = 1 THEN "logger" ELSE "absent"],
     nthreads |-> [p \in Peers |-> IF p = 1 THEN 2 ELSE 0],
     calls |-> [p \in Peers |-> [t \in Threads |-> MaxCalls]],
     levels |-> {3}, messages |-> {<<97>>},
     chunks |-> [p \in Peers |-> [n \in 1..(HEADER_SIZE + 2) |->
                   AnyChunk(n)]],
     closes |-> {}, raws |-> [p \in Peers |-> {}], path |-> "none",
     keys |-> {}, io_error |-> FALSE, flush |-> {1}]
InitThreads == InitWith(ThreadsCfg)
SpecThreads == InitThreads /\ [][NextFifo]_vars

\* Spec: two logger-client processes, the second of which also calls flush,
\* their readers, and the UI loop
NavCfg ==
    [kind |-> [p \in Peers |-> "logger"],
     nthreads |-> [p \in Peers |-> IF p = 1 THEN 2 ELSE 1],
     calls |-> [p \in Peers |-> [t \in Threads |-> IF p = 1 /\ t = 1 THEN MaxCalls ELSE 1]],
     levels |-> {3}, messages |-> {<<97>>},
     chunks |-> [p \in Peers |-> [n \in 1..(HEADER_SIZE + 2) |->
                   IF p = 1 THEN WholeChunk(n) ELSE HeaderOrWhole(n)]],
     closes |-> {}, raws |-> [p \in Peers |-> {}], path |-> "none",
     keys |-> Keys, io_error |-> TRUE, flush |-> {2}]
Init == InitWith(NavCfg)
Next ==
    \/ Bind
    \/ \E p \in Peers : Connect(p)
    \/ \E p \in Peers, t \in Threads : Log(p, t)
    \/ \E p \in Peers, t \in Threads : Flush(p, t)
    \/ \E p \in Peers, t \in Threads : Write(p, t)
    \/ \E p \in Peers, t \in Threads : WriteFail(p, t)
    \/ Accept
    \/ \E p \in Peers : Reader(p)
    \/ Draw
    \/ Key
    \/ Exit
Spec == Init /\ [][Next]_vars

\* SpecBind: one logger-client process whose two threads log and flush, and the
\* UI loop, the server started with the socket path free or with a file left
\* at the path by another server
BindCfg(path) ==
    [kind |-> [p \in Peers |-> IF p = 1 THEN "logger" ELSE "absent"],
     nthreads |-> [p \in Peers |-> IF p = 1 THEN 2 ELSE 0],
     calls |-> [p \in Peers |-> [t \in Threads |-> MaxCalls]],
     levels |-> {3}, messages |-> {<<97>>},
     chunks |-> [p \in Peers |-> [n \in 1..(HEADER_SIZE + 2) |-> HeaderOrWhole(n)]],
     closes |-> {}, raws |-> [p \in Peers |-> {}], path |-> path,
     keys |-> Keys, io_error |-> TRUE, flush |-> {1}]
InitBind == \E path \in {"none", "other"} : InitWith(BindCfg(path))
SpecBind == InitBind /\ [][Next]_vars

\* SpecRaw: a peer that writes records of its own making and may close at any
\* point, beside one logger-client process; the readers of both
RawCfg ==
    [kind |-> [p \in Peers |-> IF p = 1 THEN "raw" ELSE "logger"],
     nthreads |-> [p \in Peers |-> 1],
     calls |-> [p \in Peers |-> [t \in Threads |-> 1]],
     levels |-> {3}, messages |-> {<<97>>},
     chunks |-> [p \in Peers |-> [n \in 1..(HEADER_SIZE + 2) |->
                   IF p = 1 THEN AnyChunk(n) ELSE WholeChunk(n)]],
     closes |-> {1}, raws |-> [p \in Peers |-> RawRecords(p)], path |-> "none",
     keys |-> {"x"}, io_error |-> FALSE, flush |-> {2}]
InitRaw == InitWith(RawCfg)
NextRaw ==
    \/ Bind
    \/ \E p \in Peers : Connect(p)
    \/ \E p \in Peers : RawSend(p)
    \/ \E p \in Peers, t \in Threads : Log(p, t)
    \/ \E p \in Peers, t \in Threads : Flush(p, t)
    \/ \E p \in Peers, t \in Threads : Write(p, t)
    \/ \E p \in Peers, t \in Threads : WriteFail(p, t)
    \/ \E p \in Peers : Close(p)
    \/ Accept
    \/ \E p \in Peers : Reader(p)
    \/ Draw
    \/ Key
    \/ Exit
SpecRaw == InitRaw /\ [][NextRaw]_vars

\* SpecHdr: as SpecRaw, the peer writing also the headers whose length is over
\* the limit
HdrRecords(p) == RawRecords(p) \cup OverLengthRecords(p)
HdrCfg == [RawCfg EXCEPT !.raws = [p \in Peers |-> HdrRecords(p)]]
InitHdr == InitWith(HdrCfg)
SpecHdr == InitHdr /\ [][NextRaw]_vars

\* SpecIso: as SpecRaw, the peer writing a well-formed record, a record whose
\* payload is not UTF-8, a record whose timestamp overflows or a header whose
\* length is over the limit
IsoRecords(p) ==
    { RawRecord(1, 5, p, 3, <<97, 98>>) }
        \cup BadUtf8Records(p) \cup OverflowRecords(p) \cup OverLengthRecords(p)
IsoCfg == [RawCfg EXCEPT !.raws = [p \in Peers |-> IsoRecords(p)]]
InitIso == InitWith(IsoCfg)
SpecIso == InitIso /\ [][NextRaw]_vars

\* SpecPart: as SpecRaw, the peer writing well-formed records only, which its
\* close can cut short at any byte
PartRecords(p) == { RawRecord(1, 5, p, 3, <<97, 98>>) }
PartCfg == [RawCfg EXCEPT !.raws = [p \in Peers |-> PartRecords(p)]]
InitPart == InitWith(PartCfg)
SpecPart == InitPart /\ [][NextRaw]_vars

\* SpecLive: as SpecRaw, the peer writing well-formed records only, one of them
\* with an empty payload, whole or the header first, and closing at any point;
\* the listener and the readers are scheduled fairly
LiveRecords(p) ==
    { RawRecord(1, 5, p, 3, <<>>), RawRecord(1, 5, p, 3, <<97, 98>>) }
LiveCfg ==
    [RawCfg EXCEPT !.raws = [p \in Peers |-> LiveRecords(p)],
                   !.chunks = [p \in Peers |-> [n \in 1..(HEADER_SIZE + 2) |->
                                 IF p = 1 THEN HeaderOrWhole(n) ELSE WholeChunk(n)]]]
InitLive == InitWith(LiveCfg)
\* the listener and every reader that can take a step take it in the end
ServerFair ==
    /\ WF_vars(Bind)
    /\ WF_vars(Accept)
    /\ \A p \in Peers : WF_vars(Reader(p))
SpecLive == InitLive /\ [][NextRaw]_vars /\ ServerFair

\* SpecIsoFair: SpecIso with the listener and the readers scheduled fairly
SpecIsoFair == SpecIso /\ ServerFair

\* ------------------------------------------------------------- properties
\* positions (process, lane) of the store that hold the pair (pid, tid)
Lanes(a, pid, tid) ==
    { ij \in (1..Len(a.processes)) \X (1..2 * Cardinality(Threads)) :
        /\ ij[2] <= Len(a.processes[ij[1]].threads)
        /\ a.processes[ij[1]].id = pid
        /\ a.processes[ij[1]].threads[ij[2]].id = tid }
\* the stored lane of (pid, tid); empty when the pair was never seen
LaneLog(a, pid, tid) ==
    IF Lanes(a, pid, tid) = {} THEN <<>>
    ELSE LET ij == CHOOSE x \in Lanes(a, pid, tid) : TRUE
         IN a.processes[ij[1]].threads[ij[2]].log
\* every (process, lane, entry) position of the store
EntrySlots(a) ==
    UNION { UNION { { <<i, j, k>> : k \in 1..Len(a.processes[i].threads[j].log) } :
                    j \in 1..Len(a.processes[i].threads) } :
            i \in 1..Len(a.processes) }
TotalEntries(a) == Cardinality(EntrySlots(a))

\* the reader of p has taken every byte written and waits for a new header
Drained(p) == wire[p] = <<>> /\ rpc[p] = "wait_hdr" /\ array_index[p] = 0

\* C1 (per-lane FIFO): the stored lane of a client thread is, in every state, a
\* prefix of the entries that thread emitted, in emission order, however the
\* stream was split into reads; and the thread has one lane at most.
C1_PerLaneFifo ==
    \A p \in Peers : \A t \in ThreadsOf(p) :
        /\ Cardinality(Lanes(app, PidOf(p), TidOf(t))) <= 1
        /\ IsPrefix(LaneLog(app, PidOf(p), TidOf(t)), emitted[p][t])
\* two different messages stored in emission order, the reader now in the middle
\* of the payload of a third record
C1_Witness ==
    /\ Len(LaneLog(app, PidOf(1), TidOf(1))) = 2
    /\ LaneLog(app, PidOf(1), TidOf(1))[1].message = <<195, 169>>
    /\ LaneLog(app, PidOf(1), TidOf(1))[2].message = <<>>
    /\ rpc[1] = "wait_data"
    /\ data_index[1] = 1
    /\ Len(emitted[1][1]) = 3

\* C2 (no interleaving): with two threads of one process logging concurrently,
\* every stored lane belongs to one of the threads and holds a prefix of what
\* that thread emitted, the reader never fails on the stream, and once all
\* records are written and read the store holds exactly K*M entries.
C2_NoInterleaving ==
    /\ \A i \in 1..Len(app.processes) : \A j \in 1..Len(app.processes[i].threads) :
         \E t \in ThreadsOf(1) :
            /\ app.processes[i].id = PidOf(1)
            /\ app.processes[i].threads[j].id = TidOf(t)
            /\ IsPrefix(app.processes[i].threads[j].log, emitted[1][t])
    /\ rpc[1] # "panicked"
    /\ ( /\ \A t \in ThreadsOf(1) : calls[1][t] = cfg.calls[1][t] /\ tpc[1][t] = "idle"
         /\ Drained(1) )
       => TotalEntries(app) = cfg.nthreads[1] * MaxCalls
\* all K*M records stored, the lane of the second thread ahead of the first's
C2_Witness ==
    /\ Drained(1)
    /\ TotalEntries(app) = 2 * MaxCalls
    /\ Len(app.processes) = 1
    /\ Len(app.processes[1].threads) = 2
    /\ app.processes[1].threads[1].id = TidOf(2)
    /\ Len(app.processes[1].threads[1].log) = MaxCalls
    /\ Len(app.processes[1].threads[2].log) = MaxCalls

Selection(a) == <<a.process, a.thread, a.log>>

\* C3 (cursor validity): a set process cursor indexes processes, and a set
\* thread cursor indexes the lanes of the selected process.
C3_CursorValidity ==
    /\ IsSome(app.process) => Unwrap(app.process) < Len(app.processes)
    /\ IsSome(app.thread) =>
         /\ IsSome(app.process)
         /\ Unwrap(app.process) < Len(app.processes)
         /\ Unwrap(app.thread) < Len(At(app.processes, Unwrap(app.process)).threads)

\* C4 (auto-selection value): the ingest that makes the store non-empty sets
\* process_cursor = 0 and thread_cursor = 0, whichever connection it came from.
C4_FirstIngestSelectsZero ==
    [][(TotalEntries(app) = 0 /\ TotalEntries(app') > 0)
         => (app'.process = Some(0) /\ app'.thread = Some(0))]_vars

\* C5 (auto-select once): an ingest done with the cursors set leaves process,
\* thread and log as they are, and once the cursors are set only a key step of
\* the UI thread (an operation that returns, or one that panics after it has
\* moved a cursor) changes them.
C5_AutoSelectOnce ==
    [][IsSome(app.thread) =>
         /\ (\E p \in Peers : rpc[p] = "add" /\ rpc'[p] # "add")
              => Selection(app') = Selection(app)
         /\ Selection(app') # Selection(app)
              => (ui_pc = "key" /\ ui_pc' \in {"draw", "panicked"})]_vars
\* a second process is about to be ingested while the user has moved the cursors
C5_Witness ==
    /\ TotalEntries(app) >= 2
    /\ app.thread = Some(1)
    /\ app.log = 1
    /\ \E p \in Peers : rpc[p] = "add"

\* C6 (index stability): processes and the lanes of each process only grow at
\* the end, one position a step; a position keeps its pid / tid for good.
C6_IndexStability ==
    [][/\ Len(app'.processes) \in {Len(app.processes), Len(app.processes) + 1}
       /\ \A i \in 1..Len(app.processes) :
            /\ app'.processes[i].id = app.processes[i].id
            /\ Len(app'.processes[i].threads) \in
                 {Len(app.processes[i].threads), Len(app.processes[i].threads) + 1}
            /\ \A j \in 1..Len(app.processes[i].threads) :
                 app'.processes[i].threads[j].id = app.processes[i].threads[j].id]_vars
\* the process seen first emitted less than the one seen second
C6_Witness ==
    /\ Len(app.processes) = 2
    /\ app.processes[1].id = PidOf(2)
    /\ app.processes[2].id = PidOf(1)
    /\ Len(app.processes[2].threads) = 2
    /\ app.processes[2].threads[1].id = TidOf(2)
    /\ Len(app.processes[2].threads[2].log) = 2

\* a map and its vector agree: the map sends id to i exactly when position i
\* of the vector holds id
Agrees(map, vec) ==
    /\ \A id \in DOMAIN map : map[id] < Len(vec) /\ At(vec, map[id]).id = id
    /\ \A i \in 1..Len(vec) : vec[i].id \in DOMAIN map /\ map[vec[i].id] = i - 1

\* C7 (index and vector agree): process_id_map and processes agree, and so do
\* thread_id_map and threads of every process, so no identifier is held twice.
C7_IndexAgrees ==
    /\ Agrees(app.process_id_map, app.processes)
    /\ \A i \in 1..Len(app.processes) :
         Agrees(app.processes[i].thread_id_map, app.processes[i].threads)
\* two processes and three lanes, written by two readers
C7_Witness ==
    /\ Len(app.processes) = 2
    /\ TotalEntries(app) = 4
    /\ \E i \in 1..2 : Len(app.processes[i].threads) = 2
    /\ lock = None

\* the header checks of the specification's decode_header (the length limit
\* is its default of 16 MiB)
ValidHeader(h) ==
    /\ h.nanos < NANOS_PER_SEC
    /\ ValidLevel(h.level)
    /\ ~AboveIsizeMax(h.length) /\ h.length <= 16 * 1024 * 1024
\* the longest prefix of records whose headers pass the checks
RECURSIVE ValidPrefix(_)
ValidPrefix(rs) ==
    IF rs = <<>> THEN <<>>
    ELSE IF ValidHeader(Head(rs)) THEN <<Head(rs)>> \o ValidPrefix(Tail(rs))
    ELSE <<>>
StoredLogs(rs) == [i \in 1..Len(rs) |-> StoredLog(rs[i])]
\* the records peer p has written to the last byte
Complete(p) ==
    IF \E t \in Threads : out[p][t] # <<>>
    THEN SubSeq(sent[p], 1, Len(sent[p]) - 1)
    ELSE sent[p]
\* the reader of p sits in epoll.wait and the wait cannot return
ReaderBlocked(p) == rpc[p] \in {"wait_hdr", "wait_data"} /\ ~Ready(p)

\* C8 (header rejection): a record whose header has nanos >= 10^9, a level
\* outside 1..5 or a length above the maximum is never stored, nor is anything
\* that follows it on the connection, and the reader does not go on to read
\* the payload of such a header.
C8_HeaderRejection ==
    \A p \in Peers :
        /\ IsPrefix(LaneLog(app, PidOf(p), TidOf(1)), StoredLogs(ValidPrefix(sent[p])))
        /\ rpc[p] \in {"wait_data", "more_data", "lock", "add"}
             => ValidHeader(Decode(array[p]))

\* C9 (no partial entry): the lane of a connection holds only records that
\* were written to their last byte, in order, each as it was written; a record
\* cut short by a close adds nothing, to its own lane or to another's.
C9_NoPartialEntry ==
    /\ \A p \in Peers :
         /\ Cardinality(Lanes(app, PidOf(p), TidOf(1))) <= 1
         /\ IsPrefix(LaneLog(app, PidOf(p), TidOf(1)), StoredLogs(Complete(p)))
    /\ \A i \in 1..Len(app.processes) :
         /\ \E p \in Peers : app.processes[i].id = PidOf(p)
         /\ \A j \in 1..Len(app.processes[i].threads) :
              app.processes[i].threads[j].id = TidOf(1)
\* the peer closed one byte short of a two-byte payload; its reader has taken
\* the header and the first byte and the end of the stream; the peer's earlier
\* record and the other connection's record are stored
C9_Witness ==
    /\ closed[1]
    /\ Len(sent[1]) = 2
    /\ sent[1][2].length = 2
    /\ Len(out[1][1]) = 1
    /\ wire[1] = <<>>
    /\ rpc[1] = "wait_data"
    /\ data_index[1] = 1
    /\ ~edge[1]
    /\ Len(LaneLog(app, PidOf(1), TidOf(1))) = 1
    /\ Len(LaneLog(app, PidOf(2), TidOf(1))) = 1

\* C10 (reader termination on peer close): once the peer has closed, the
\* reader does not sit in the readiness wait with no event left to wake it.
C10_ReaderEnds ==
    \A p \in Peers : closed[p] => ~ReaderBlocked(p)

\* a record the specification calls well-formed: a valid header and a UTF-8 payload
WellFormed(r) == ValidHeader(r) /\ Utf8Valid(r.message)

\* C11 (failure isolation): no reader poisons the store lock (a poisoned lock
\* is the work of a panic of the UI thread under its guard), no record makes
\* the server process abort, and while the lock is usable a reader fails only
\* on a malformed record of its own connection, so the reader of a connection
\* that carried well-formed records only keeps working whatever the other
\* connections sent.
C11_FailureIsolation ==
    /\ poisoned => ui_pc = "panicked"
    /\ server # "aborted"
    /\ \A p \in Peers :
         (rpc[p] = "panicked" /\ ~poisoned)
            => \E i \in 1..Len(sent[p]) : ~WellFormed(sent[p][i])

\* the store: both indexes and everything they lead to
Store(a) == <<a.process_id_map, a.processes>>
\* map n keeps every key of map m with its value
MapExtends(m, n) == \A k \in DOMAIN m : k \in DOMAIN n /\ n[k] = m[k]
\* store b holds all of store a where a holds it: every process, lane and
\* entry of a is in b at the same position, unchanged
StoreExtends(a, b) ==
    /\ MapExtends(a.process_id_map, b.process_id_map)
    /\ Len(a.processes) <= Len(b.processes)
    /\ \A i \in 1..Len(a.processes) :
         /\ b.processes[i].id = a.processes[i].id
         /\ MapExtends(a.processes[i].thread_id_map, b.processes[i].thread_id_map)
         /\ Len(a.processes[i].threads) <= Len(b.processes[i].threads)
         /\ \A j \in 1..Len(a.processes[i].threads) :
              /\ b.processes[i].threads[j].id = a.processes[i].threads[j].id
              /\ IsPrefix(a.processes[i].threads[j].log, b.processes[i].threads[j].log)
\* the step is the ingest of one record by a reader
IngestStep == \E p \in Peers : rpc[p] = "add" /\ rpc'[p] = "read_hdr"

\* C12 (store frame): a step of the UI thread (a frame, a key with its
\* navigation operation) leaves the store as it is; the store changes only in
\* the ingest step of a reader, and that step adds one entry and keeps every
\* process, lane and entry already there, at its position and unchanged.
C12_StoreFrame ==
    [][/\ ui_pc' # ui_pc => Store(app') = Store(app)
       /\ Store(app') # Store(app) =>
            /\ IngestStep
            /\ StoreExtends(app, app')
            /\ TotalEntries(app') = TotalEntries(app) + 1]_vars
\* three lanes hold four entries, the user has moved to the second lane of a
\* process and scrolled it, and a frame of that selection has been drawn
C12_Witness ==
    /\ TotalEntries(app) = 4
    /\ IsSome(app.process)
    /\ app.thread = Some(1)
    /\ app.log = 2
    /\ ui_pc = "key"

\* both cursors are set and index the store
ValidCursors(a) ==
    /\ IsSome(a.process) /\ Unwrap(a.process) < Len(a.processes)
    /\ IsSome(a.thread)
    /\ Unwrap(a.thread) < Len(At(a.processes, Unwrap(a.process)).threads)
\* the entries of the selected lane
SelectedLane(a) == At(At(a.processes, Unwrap(a.process)).threads, Unwrap(a.thread)).log

\* C13 (log offset bound): in every state with valid cursors 0 <= log_offset <=
\* |selected lane|, next_log adds one exactly when log_offset is below the
\* entry count, previous_log takes one exactly when it is above 0, and a frame
\* at log_offset = entry count has no rows; a step changes log_offset only by
\* one of these two, or to 0 in a move of the process or thread cursor.
C13_LogOffsetBound ==
    /\ [](ValidCursors(app) =>
            LET n == Len(SelectedLane(app)) IN
            /\ 0 <= app.log /\ app.log <= n
            /\ next_log(app) = [app EXCEPT !.log = IF app.log < n THEN app.log + 1 ELSE app.log]
            /\ previous_log(app) = [app EXCEPT !.log = IF app.log > 0 THEN app.log - 1 ELSE app.log]
            /\ app.log = n => Rows(app) = <<>>)
    /\ [][app'.log # app.log =>
            /\ ui_pc = "key" /\ ui_pc' = "draw"
            /\ \/ app' = next_log(app) /\ app'.log = app.log + 1
               \/ app' = previous_log(app) /\ app'.log = app.log - 1
               \/ /\ app'.log = 0
                  /\ app' \in {next_process(app), previous_process(app),
                               next_thread(app), previous_thread(app)}]_vars
\* the user scrolled the two-entry lane to its end and the frame was drawn
C13_Witness ==
    /\ ValidCursors(app)
    /\ Len(SelectedLane(app)) = 2
    /\ app.log = 2
    /\ Rows(app) = <<>>
    /\ ui_pc = "key"

\* what the specification says a process move by d leaves: the cursor moved
\* modulo |processes|, thread_cursor = 0, log_offset = 0
ProcessMoved(a, d) ==
    LET n == Len(a.processes) IN
    [a EXCEPT !.process = Some((Unwrap(a.process) + n + d) % n),
              !.thread = Some(0), !.log = 0]
\* what it says a thread move by d leaves: the cursor moved modulo the lane
\* count of the selected process, log_offset = 0
ThreadMoved(a, d) ==
    LET n == Len(At(a.processes, Unwrap(a.process)).threads) IN
    [a EXCEPT !.thread = Some((Unwrap(a.thread) + n + d) % n), !.log = 0]

\* C14 (cursor movement): with a process selected the two process moves give
\* process_cursor +-1 modulo |processes|, thread_cursor = 0, log_offset = 0;
\* with a thread selected the two thread moves give thread_cursor +-1 modulo
\* the lane count of the selected process, the same process_cursor and
\* log_offset = 0.
C14_CursorMovement ==
    /\ IsSome(app.process) =>
         /\ next_process(app) = ProcessMoved(app, 1)
         /\ previous_process(app) = ProcessMoved(app, -1)
    /\ IsSome(app.thread) =>
         /\ IsSome(app.process) /\ Unwrap(app.process) < Len(app.processes)
         /\ next_thread(app) = ThreadMoved(app, 1)
         /\ previous_thread(app) = ThreadMoved(app, -1)

\* C15 (bind failure): when the socket path is in use at startup, the file at
\* the path stays the one the other server made, whatever happens later (a quit
\* included), and once the bind has failed the server is over: its UI loop takes
\* no further step.
C15_BindFailure ==
    /\ [](cfg.path = "other" => socket_file = "other")
    /\ [][listener = "panicked" => ui_pc' = ui_pc]_vars

\* C16 (transport failure): a failed socket write does not abort the emitting
\* thread and leaves the stream lock usable, so no client thread ever ends in a
\* panic, neither the one whose write failed nor one that logs after it.
C16_TransportFailure ==
    \A p \in Peers :
        /\ ~stream_poisoned[p]
        /\ \A t \in Threads : tpc[p][t] # "panicked"

\* the reader of p is about to call read; it sits in epoll.wait
Reading(pc) == pc \in {"read_hdr", "more_hdr", "read_data", "more_data"}
Waiting(pc) == pc \in {"wait_hdr", "wait_data"}

\* C17 (drain before wait): the reader goes from a read to the readiness wait
\* only when that read found the socket empty, so after an edge it reads until
\* the target is met or nothing is left; a read of the loop that finds nothing
\* leads to the wait and not to a failure; and the reader never sits in the
\* wait with bytes in the socket and no edge pending.
C17_DrainBeforeWait ==
    /\ [][\A p \in Peers :
            (Reading(rpc[p]) /\ Waiting(rpc'[p])) => wire[p] = <<>>]_vars
    /\ [][\A p \in Peers :
            (rpc[p] \in {"more_hdr", "more_data"} /\ WouldBlock(p) /\ rpc'[p] # rpc[p])
                => Waiting(rpc'[p])]_vars
    /\ [](\A p \in Peers : (Waiting(rpc[p]) /\ wire[p] # <<>>) => edge[p])

\* C18 (eventual ingest): under fair scheduling of the server threads, the n-th
\* record a peer has written to its last byte is stored in the end, whatever
\* the chunks it was written in and wherever the reader was when they came, also
\* when its payload is empty and when the peer closes right after it.
C18_EventualIngest ==
    \A p \in Peers : \A n \in 1..MaxRaw :
        (Len(Complete(p)) >= n) ~> (Len(LaneLog(app, PidOf(p), TidOf(1))) >= n)
\* the reader of p has the whole record in its buffers, and header and payload
\* pass the checks of the specification
Reassembled(p) ==
    /\ array_index[p] = HEADER_SIZE
    /\ data[p].len = Decode(array[p]).length
    /\ data_index[p] = data[p].len
Validated(p) == ValidHeader(Decode(array[p])) /\ Utf8Valid(VecBytes(data[p]))

\* C19 (lock discipline): the reader that holds the write guard is adding its
\* record, not waiting or reading; a reader asks for the guard only with a
\* whole, validated record; a request for the guard is never answered by a
\* failure while the server runs, and is granted in the end.
C19_LockDiscipline ==
    /\ [](\A p \in Peers : lock = Some(p) => rpc[p] = "add")
    /\ [](\A p \in Peers :
            rpc[p] \in {"lock", "add"} => Reassembled(p) /\ Validated(p))
    /\ [][\A p \in Peers :
            (rpc[p] = "lock" /\ ServerAlive') => rpc'[p] \in {"lock", "add"}]_vars
    /\ \A p \in Peers : (rpc[p] = "lock") ~> (rpc[p] = "add" \/ ~ServerAlive)

\* the App r a process move left has thread_cursor = 0 and log_offset = 0
ThreadReset(r) == Panicked(r) \/ (r.thread = Some(0) /\ r.log = 0)
\* the App r a thread move left has log_offset = 0
LogReset(r) == Panicked(r) \/ r.log = 0

\* C20 (non-empty containers): every process of the store has a lane and every
\* lane an entry, and thread_cursor is set only with process_cursor set; so a
\* navigation operation never takes a remainder by a zero length nor unwraps
\* an unset process_cursor, and a process or thread move that goes through
\* always resets thread_cursor and log_offset.
C20_NonEmptyContainers ==
    /\ \A i \in 1..Len(app.processes) :
         /\ app.processes[i].threads # <<>>
         /\ \A j \in 1..Len(app.processes[i].threads) :
              app.processes[i].threads[j].log # <<>>
    /\ IsSome(app.thread) => IsSome(app.process)
    /\ IsSome(app.process) =>
         /\ Len(app.processes) # 0
         /\ ThreadReset(next_process(app))
         /\ ThreadReset(previous_process(app))
    /\ IsSome(app.thread) =>
         /\ LogReset(next_thread(app))
         /\ LogReset(previous_thread(app))
\* the user moved to the second process and to the second of its lanes, and
\* scrolled it
C20_Witness ==
    /\ Len(app.processes) = 2
    /\ app.process = Some(1)
    /\ app.thread = Some(1)
    /\ app.log = 1
    /\ lock = None

====
